---- MODULE Spec2Model ----
(***************************************************************************)
(* Model of the MyCMS client (the newest revision of the client class,     *)
(* src/unnamed/part_002 lines 1-703): construction, the private HTTP       *)
(* helpers, the query encoder and every resource operation.                *)
(*                                                                         *)
(* One call is followed from its invocation to the settlement of the       *)
(* promise it returns.  An async method runs in two steps: the part up to  *)
(* `await axios(config)` (argument checks, request construction) and the   *)
(* continuation that runs once the transport promise has settled.          *)
(* JavaScript values are tagged records, strings are TLA+ strings.         *)
(* SpecConcurrent adds a second call in flight on the same client,         *)
(* SpecHelpers applies the private HTTP helpers on their own, and SpecLive *)
(* adds the scheduling of continuations by the event loop.                 *)
(***************************************************************************)
EXTENDS Integers, Sequences, FiniteSets, TLC

VARIABLES
    client,       \* the MyCMS instance (endpoint, token, version, headers) or NoClient
    env,          \* process.env, only the CMSTOKEN entry
    ctorResult,   \* the last `new MyCMS(...)`: its arguments and how it ended ("ok" or the thrown error)
    call,         \* the operation call being followed: op, args, callback
    pc,           \* "idle", "awaiting" (transport pending), "ready" (continuation queued), "settled"
    requests,     \* the request configs handed to axios by this call, in order
    axiosResult,  \* how the transport promise of this call settled
    cbLog,        \* the invocations of the caller's callback by this call, in order
    promise,      \* the state of the promise returned by the call
    other         \* a second call in flight on the same client, with its own pc, requests, ...

vars == <<client, env, ctorResult, call, pc, requests, axiosResult, cbLog, promise, other>>

----------------------------------------------------------------------------
(* Bounds of the model *)

\* longest `fields` array of a query that is enumerated
MaxFields == 2

----------------------------------------------------------------------------
(* JavaScript values *)

Undefined == [type |-> "undefined"]
Null == [type |-> "null"]
Str(s) == [type |-> "string", str |-> s]
Num(n) == [type |-> "number", num |-> n]
Bool(b) == [type |-> "boolean", bool |-> b]
Arr(a) == [type |-> "array", items |-> a]
Obj(o) == [type |-> "object", props |-> o]
\* a caller-supplied callback function; `throws` says whether its body throws
Fn(throws) == [type |-> "function", throws |-> throws]

\* the object literal {}
EmptyObject == Obj(<<>>)

\* JavaScript truthiness, the negation of `!v`
Truthy(v) ==
    CASE v.type = "undefined" -> FALSE
      [] v.type = "null" -> FALSE
      [] v.type = "string" -> v.str # ""
      [] v.type = "number" -> v.num # 0
      [] v.type = "boolean" -> v.bool
      [] OTHER -> TRUE

\* property read `o.k` on an object
Get(o, k) == IF k \in DOMAIN o.props THEN o.props[k] ELSE Undefined

\* `const { k, ...rest } = o`: the rest object
Rest(o, k) == Obj([x \in (DOMAIN o.props) \ {k} |-> o.props[x]])

\* a default parameter value `p = d`
Default(p, d) == IF p = Undefined THEN d ELSE p

\* String.prototype.startsWith
startsWith(s, prefix) ==
    /\ Len(s) >= Len(prefix)
    /\ SubSeq(s, 1, Len(prefix)) = prefix

\* Array.prototype.join on an array of strings
RECURSIVE join(_, _)
join(a, sep) ==
    IF Len(a) = 0 THEN ""
    ELSE IF Len(a) = 1 THEN a[1]
    ELSE a[1] \o sep \o join(Tail(a), sep)

----------------------------------------------------------------------------
(* Errors and promise states *)

buildRequiredArgError(name) ==
    [type |-> "CMSError",
     message |-> "Argument '" \o name \o "' is required but was not present"]

\* the TypeError the runtime raises on a property read of undefined
TypeError == [type |-> "TypeError"]

\* what a throwing callback throws
CallbackThrown == [type |-> "Error", message |-> "thrown by callback"]

\* the rejection of axios: `response` is Undefined when no HTTP response arrived
AxiosError(response) == [type |-> "AxiosError", response |-> response]

\* `(err as AxiosError<CMSError>).response`
ResponseOf(err) == IF err.type = "AxiosError" THEN err.response ELSE Undefined

Pending == [state |-> "pending"]
Resolved(v) == [state |-> "fulfilled", value |-> v]
Rejected(e) == [state |-> "rejected", reason |-> e]

----------------------------------------------------------------------------
(* The client *)

DEFAULT_ENDPOINT == "http://localhost:5000/api/v1"

DEFAULT_VERSION == "1.0.0"

NoClient == [type |-> "none"]

\* variant of the constructor with another default version
MyCMS_otherDefault(token, version) ==
    IF ~Truthy(token) THEN [threw |-> TRUE, error |-> buildRequiredArgError("token")]
    ELSE LET v == Default(version, Str("2.0.0")) IN
         [threw |-> FALSE,
          envToken |-> token,
          this |-> [type |-> "MyCMS",
                    endpoint |-> DEFAULT_ENDPOINT,
                    token |-> token.str,
                    version |-> v.str,
                    headers |-> ("Accept" :> "application/json"
                                 @@ "Authorization" :> ("Bearer " \o token.str)
                                 @@ "accept-version" :> v.str
                                 @@ "Content-Type" :> "application/json")]]

\* new MyCMS({ token, version = "1.0.0" }): the instance built, or the error thrown
MyCMS(token, version) ==
    IF ~Truthy(token) THEN [threw |-> TRUE, error |-> buildRequiredArgError("token")]
    ELSE LET v == Default(version, Str(DEFAULT_VERSION)) IN
         [threw |-> FALSE,
          envToken |-> token,
          this |-> [type |-> "MyCMS",
                    endpoint |-> DEFAULT_ENDPOINT,
                    token |-> token.str,
                    version |-> v.str,
                    headers |-> ("Accept" :> "application/json"
                                 @@ "Authorization" :> ("Bearer " \o token.str)
                                 @@ "accept-version" :> v.str
                                 @@ "Content-Type" :> "application/json")]]

\* variant of authenticatedFetch that leaves the base endpoint out of the url
authenticatedFetch_relative(method, path, data, query) ==
    [url |-> path,
     method |-> method,
     headers |-> client.headers,
     data |-> data,
     params |-> Default(query, EmptyObject)]

\* the AxiosRequestConfig built by authenticatedFetch and handed to axios
authenticatedFetch(method, path, data, query) ==
    [url |-> client.endpoint \o path,
     method |-> method,
     headers |-> client.headers,
     data |-> data,
     params |-> Default(query, EmptyObject)]

\* the private HTTP helpers; a query left out takes the default {}
get(path, query) == authenticatedFetch("GET", path, Bool(FALSE), Default(query, EmptyObject))

post(path, data, query) == authenticatedFetch("POST", path, data, Default(query, EmptyObject))

put(path, data, query) == authenticatedFetch("PUT", path, data, Default(query, EmptyObject))

patch(path, data, query) == authenticatedFetch("PATCH", path, data, Default(query, EmptyObject))

\* the query is passed in the position of `data`; the fourth argument is left out
delete(path, query) == authenticatedFetch("DELETE", path, Default(query, EmptyObject), Undefined)

\* variant of createFinalQuery that hands the query on without encoding it
createFinalQuery_unencoded(query) == query

\* the query encoder
createFinalQuery(query) ==
    LET fields == Get(query, "fields")
        rest == Rest(query, "fields")
    IN IF Truthy(fields) /\ fields.type = "array"
       THEN Obj(("fields" :> Str(join(fields.items, ","))) @@ rest.props)
       ELSE rest

\* tryCallback(callback, err, data): the invocations made and whether one threw
tryCallback(callback, err, data) ==
    IF Truthy(callback) /\ callback.type = "function"
    THEN [calls |-> <<[err |-> err, data |-> data]>>, threw |-> callback.throws]
    ELSE [calls |-> <<>>, threw |-> FALSE]

----------------------------------------------------------------------------
(* The effect of a call so far: requests sent, callback invocations made,  *)
(* state of the returned promise.  Every operation below is the method of  *)
(* the same name, evaluated against `r`, the settlement of its transport   *)
(* promise (NotYet while the method is suspended at its await).            *)

NotYet == [settled |-> FALSE]
Fulfilled(status, data) == [settled |-> TRUE, ok |-> TRUE, res |-> [status |-> status, data |-> data]]
Failed(err) == [settled |-> TRUE, ok |-> FALSE, err |-> err]

Effect(reqs, cbs, p) == [requests |-> reqs, callbacks |-> cbs, promise |-> p]

\* `return Promise.reject(buildRequiredArgError(name))` before any request
Missing(name) == Effect(<<>>, <<>>, Rejected(buildRequiredArgError(name)))

\* suspended at `await` with the request handed to axios
Awaiting(req) == Effect(<<req>>, <<>>, Pending)

\* `response.status === 404 || response.data.message.startsWith(marker)`:
\* "yes", "no", or "TypeError" when a property of undefined is read
notFoundTest(response, marker) ==
    IF response = Undefined THEN "TypeError"
    ELSE IF response.status = 404 THEN "yes"
    ELSE LET message == Get(response.data, "message") IN
         IF message.type # "string" THEN "TypeError"
         ELSE IF startsWith(message.str, marker) THEN "yes" ELSE "no"

\* variant of catchNotFound that leaves the promise pending when the entity is not found
catchNotFound_hanging(err, marker) ==
    LET response == ResponseOf(err)
        t == notFoundTest(response, marker)
    IN CASE t = "TypeError" -> Rejected(TypeError)
         [] t = "yes" -> Pending
         [] OTHER -> Rejected(response.data)

\* the catch block of a mutation without callback:
\* null when not found, else Promise.reject(err.response!.data)
catchNotFound(err, marker) ==
    LET response == ResponseOf(err)
        t == notFoundTest(response, marker)
    IN CASE t = "TypeError" -> Rejected(TypeError)
         [] t = "yes" -> Resolved(Null)
         [] OTHER -> Rejected(response.data)

\* the catch block of a create: Promise.reject(err.response!.data)
catchReject(err) ==
    LET response == ResponseOf(err) IN
    IF response = Undefined THEN Rejected(TypeError) ELSE Rejected(response.data)

(* Databases *)

getDatabases(query, r) ==
    LET finalQuery == createFinalQuery(Default(query, EmptyObject))
        req == get("/databases", finalQuery)
    IN IF ~r.settled THEN Awaiting(req)
       ELSE IF r.ok THEN Effect(<<req>>, <<>>, Resolved(Get(r.res.data, "databases")))
       ELSE Effect(<<req>>, <<>>, Rejected(r.err))

\* variant of getDatabaseById that repeats the request after a failure
getDatabaseById_retrying(database_id, r) ==
    IF ~Truthy(database_id) THEN Missing("database_id")
    ELSE LET req == get("/databases/" \o database_id.str, Undefined) IN
         IF ~r.settled THEN Awaiting(req)
         ELSE IF r.ok THEN Effect(<<req>>, <<>>, Resolved(Get(r.res.data, "database")))
         ELSE Effect(<<req, req>>, <<>>, Resolved(Null))

getDatabaseById(database_id, r) ==
    IF ~Truthy(database_id) THEN Missing("database_id")
    ELSE LET req == get("/databases/" \o database_id.str, Undefined) IN
         IF ~r.settled THEN Awaiting(req)
         ELSE IF r.ok THEN Effect(<<req>>, <<>>, Resolved(Get(r.res.data, "database")))
         ELSE Effect(<<req>>, <<>>, Resolved(Null))

createDatabase(name, r) ==
    IF ~Truthy(name) THEN Missing("name")
    ELSE LET req == post("/databases", Obj("name" :> name), Undefined) IN
         IF ~r.settled THEN Awaiting(req)
         ELSE IF r.ok THEN Effect(<<req>>, <<>>, Resolved(Get(r.res.data, "database")))
         ELSE Effect(<<req>>, <<>>, catchReject(r.err))

deleteDatabaseById(database_id, r) ==
    IF ~Truthy(database_id) THEN Missing("database_id")
    ELSE LET req == delete("/databases/" \o database_id.str, Undefined) IN
         IF ~r.settled THEN Awaiting(req)
         ELSE IF r.ok THEN Effect(<<req>>, <<>>, Resolved(Rest(r.res.data, "status")))
         ELSE Effect(<<req>>, <<>>, catchNotFound(r.err, "Invalid database"))

\* variant of shareDatabase that checks role before email
shareDatabase_roleFirst(database_id, email, role, r) ==
    IF ~Truthy(database_id) THEN Missing("database_id")
    ELSE IF ~Truthy(role) THEN Missing("role")
    ELSE IF ~Truthy(email) THEN Missing("email")
    ELSE LET req == post("/databases/" \o database_id.str \o "/share",
                         Obj("email" :> email @@ "role" :> role), Undefined)
         IN IF ~r.settled THEN Awaiting(req)
            ELSE IF r.ok
            THEN Effect(<<req>>, <<>>,
                        Resolved(Obj("shared" :> Bool(TRUE) @@ "message" :> Get(r.res.data, "message"))))
            ELSE LET response == ResponseOf(r.err) IN
                 IF response = Undefined THEN Effect(<<req>>, <<>>, Rejected(TypeError))
                 ELSE Effect(<<req>>, <<>>,
                             Resolved(Obj("shared" :> Bool(FALSE)
                                          @@ "message" :> Get(response.data, "message"))))

shareDatabase(database_id, email, role, r) ==
    IF ~Truthy(database_id) THEN Missing("database_id")
    ELSE IF ~Truthy(email) THEN Missing("email")
    ELSE IF ~Truthy(role) THEN Missing("role")
    ELSE LET req == post("/databases/" \o database_id.str \o "/share",
                         Obj("email" :> email @@ "role" :> role), Undefined)
         IN IF ~r.settled THEN Awaiting(req)
            ELSE IF r.ok
            THEN Effect(<<req>>, <<>>,
                        Resolved(Obj("shared" :> Bool(TRUE) @@ "message" :> Get(r.res.data, "message"))))
            ELSE LET response == ResponseOf(r.err) IN
                 IF response = Undefined THEN Effect(<<req>>, <<>>, Rejected(TypeError))
                 ELSE Effect(<<req>>, <<>>,
                             Resolved(Obj("shared" :> Bool(FALSE)
                                          @@ "message" :> Get(response.data, "message"))))

\* variant of updateDatabaseById without the check of `name`
updateDatabaseById_nameUnchecked(database_id, name, r) ==
    IF ~Truthy(database_id) THEN Missing("database_id")
    ELSE LET req == patch("/databases/" \o database_id.str, Obj("name" :> name), Undefined) IN
         IF ~r.settled THEN Awaiting(req)
         ELSE IF r.ok THEN Effect(<<req>>, <<>>, Resolved(Get(r.res.data, "database")))
         ELSE Effect(<<req>>, <<>>, catchNotFound(r.err, "Invalid database"))

updateDatabaseById(database_id, name, r) ==
    IF ~Truthy(database_id) THEN Missing("database_id")
    ELSE IF ~Truthy(name) THEN Missing("name")
    ELSE LET req == patch("/databases/" \o database_id.str, Obj("name" :> name), Undefined) IN
         IF ~r.settled THEN Awaiting(req)
         ELSE IF r.ok THEN Effect(<<req>>, <<>>, Resolved(Get(r.res.data, "database")))
         ELSE Effect(<<req>>, <<>>, catchNotFound(r.err, "Invalid database"))

(* Collections *)

\* variant of getCollectionsByDatabaseId that catches the failure and returns null
getCollectionsByDatabaseId_suppressing(database_id, r) ==
    IF ~Truthy(database_id) THEN Missing("database_id")
    ELSE LET req == get("/databases/" \o database_id.str \o "/collections", Undefined) IN
         IF ~r.settled THEN Awaiting(req)
         ELSE IF r.ok THEN Effect(<<req>>, <<>>, Resolved(Get(r.res.data, "collections")))
         ELSE Effect(<<req>>, <<>>, Resolved(Null))

getCollectionsByDatabaseId(database_id, r) ==
    IF ~Truthy(database_id) THEN Missing("database_id")
    ELSE LET req == get("/databases/" \o database_id.str \o "/collections", Undefined) IN
         IF ~r.settled THEN Awaiting(req)
         ELSE IF r.ok THEN Effect(<<req>>, <<>>, Resolved(Get(r.res.data, "collections")))
         ELSE Effect(<<req>>, <<>>, Rejected(r.err))

getCollectionById(collection_id, r) ==
    IF ~Truthy(collection_id) THEN Missing("collection_id")
    ELSE LET req == get("/collections/" \o collection_id.str, Undefined) IN
         IF ~r.settled THEN Awaiting(req)
         ELSE IF r.ok THEN Effect(<<req>>, <<>>, Resolved(Get(r.res.data, "collection")))
         ELSE Effect(<<req>>, <<>>, Resolved(Null))

\* the body is { database: database_id, ...data }: a key of data wins over the literal
createCollectionByDatabaseId(database_id, data, r) ==
    IF ~Truthy(database_id) THEN Missing("database_id")
    ELSE IF ~Truthy(data) THEN Missing("data")
    ELSE LET req == post("/collections", Obj(data.props @@ ("database" :> database_id)), Undefined) IN
         IF ~r.settled THEN Awaiting(req)
         ELSE IF r.ok THEN Effect(<<req>>, <<>>, Resolved(Get(r.res.data, "collection")))
         ELSE Effect(<<req>>, <<>>, catchReject(r.err))

updateCollectionById(collection_id, update, r) ==
    IF ~Truthy(collection_id) THEN Missing("collection_id")
    ELSE IF ~Truthy(update) THEN Missing("update")
    ELSE LET req == patch("/collections/" \o collection_id.str, update, Undefined) IN
         IF ~r.settled THEN Awaiting(req)
         ELSE IF r.ok THEN Effect(<<req>>, <<>>, Resolved(Get(r.res.data, "collection")))
         ELSE Effect(<<req>>, <<>>, catchNotFound(r.err, "Invalid _id"))

deleteCollectionById(collection_id, r) ==
    IF ~Truthy(collection_id) THEN Missing("collection_id")
    ELSE LET req == delete("/collections/" \o collection_id.str, Undefined) IN
         IF ~r.settled THEN Awaiting(req)
         ELSE IF r.ok THEN Effect(<<req>>, <<>>, Resolved(Rest(r.res.data, "status")))
         ELSE Effect(<<req>>, <<>>, catchNotFound(r.err, "Invalid _id"))

(* Items *)

\* the query is encoded before collection_id is checked
\* variant of getItemsByCollectionId that hands the caller's query to get as it is
getItemsByCollectionId_rawQuery(collection_id, query, r) ==
    IF ~Truthy(collection_id) THEN Missing("collection_id")
    ELSE LET req == get("/collections/" \o collection_id.str \o "/items", Default(query, EmptyObject)) IN
         IF ~r.settled THEN Awaiting(req)
         ELSE IF r.ok THEN Effect(<<req>>, <<>>, Resolved(Get(r.res.data, "items")))
         ELSE Effect(<<req>>, <<>>, Rejected(r.err))

getItemsByCollectionId(collection_id, query, r) ==
    LET finalQuery == createFinalQuery(Default(query, EmptyObject)) IN
    IF ~Truthy(collection_id) THEN Missing("collection_id")
    ELSE LET req == get("/collections/" \o collection_id.str \o "/items", finalQuery) IN
         IF ~r.settled THEN Awaiting(req)
         ELSE IF r.ok THEN Effect(<<req>>, <<>>, Resolved(Get(r.res.data, "items")))
         ELSE Effect(<<req>>, <<>>, Rejected(r.err))

getItem(collection_id, item_id, r) ==
    IF ~Truthy(collection_id) THEN Missing("collection_id")
    ELSE IF ~Truthy(item_id) THEN Missing("item_id")
    ELSE LET req == get("/collections/" \o collection_id.str \o "/items/" \o item_id.str, Undefined) IN
         IF ~r.settled THEN Awaiting(req)
         ELSE IF r.ok THEN Effect(<<req>>, <<>>, Resolved(Get(r.res.data, "item")))
         ELSE Effect(<<req>>, <<>>, Resolved(Null))

\* variant of createItem that stamps the collection id into the body
createItem_stamped(collection_id, data, r) ==
    IF ~Truthy(collection_id) THEN Missing("collection_id")
    ELSE IF ~Truthy(data) THEN Missing("data")
    ELSE LET req == post("/collections/" \o collection_id.str \o "/items",
                         Obj(data.props @@ ("collection" :> collection_id)), Undefined) IN
         IF ~r.settled THEN Awaiting(req)
         ELSE IF r.ok THEN Effect(<<req>>, <<>>, Resolved(Get(r.res.data, "item")))
         ELSE Effect(<<req>>, <<>>, catchReject(r.err))

createItem(collection_id, data, r) ==
    IF ~Truthy(collection_id) THEN Missing("collection_id")
    ELSE IF ~Truthy(data) THEN Missing("data")
    ELSE LET req == post("/collections/" \o collection_id.str \o "/items", data, Undefined) IN
         IF ~r.settled THEN Awaiting(req)
         ELSE IF r.ok THEN Effect(<<req>>, <<>>, Resolved(Get(r.res.data, "item")))
         ELSE Effect(<<req>>, <<>>, catchReject(r.err))

patchItemById(collection_id, item_id, fields, r) ==
    IF ~Truthy(collection_id) THEN Missing("collection_id")
    ELSE IF ~Truthy(item_id) THEN Missing("item_id")
    ELSE IF ~Truthy(fields) THEN Missing("fields")
    ELSE LET req == patch("/collections/" \o collection_id.str \o "/items/" \o item_id.str,
                          fields, Undefined)
         IN IF ~r.settled THEN Awaiting(req)
            ELSE IF r.ok THEN Effect(<<req>>, <<>>, Resolved(Get(r.res.data, "item")))
            ELSE Effect(<<req>>, <<>>, catchNotFound(r.err, "Invalid _id"))

putItemById(collection_id, item_id, fields, r) ==
    IF ~Truthy(collection_id) THEN Missing("collection_id")
    ELSE IF ~Truthy(item_id) THEN Missing("item_id")
    ELSE IF ~Truthy(fields) THEN Missing("fields")
    ELSE LET req == put("/collections/" \o collection_id.str \o "/items/" \o item_id.str,
                        fields, Undefined)
         IN IF ~r.settled THEN Awaiting(req)
            ELSE IF r.ok THEN Effect(<<req>>, <<>>, Resolved(Get(r.res.data, "item")))
            ELSE Effect(<<req>>, <<>>, catchNotFound(r.err, "Invalid _id"))

deleteItemById(collection_id, item_id, r) ==
    IF ~Truthy(collection_id) THEN Missing("collection_id")
    ELSE IF ~Truthy(item_id) THEN Missing("item_id")
    ELSE LET req == delete("/collections/" \o collection_id.str \o "/items/" \o item_id.str, Undefined) IN
         IF ~r.settled THEN Awaiting(req)
         ELSE IF r.ok THEN Effect(<<req>>, <<>>, Resolved(Rest(r.res.data, "status")))
         ELSE Effect(<<req>>, <<>>, catchNotFound(r.err, "Invalid _id"))

(* Fields and users: the operations that also notify an error-first callback. *)
(* A throw inside the try block, the callback's included, enters the catch    *)
(* block with the thrown value as `err`; a throw inside the catch block       *)
(* rejects the returned promise.                                              *)

\* the rest of a try block from tryCallback(callback, null, value) on:
\* `done` when it returned value, else the thrown error goes to the catch block
tryNotify(callback, value) ==
    LET t == tryCallback(callback, Null, value) IN
    [calls |-> t.calls, done |-> ~t.threw, err |-> CallbackThrown]

\* catch block of a lookup with callback: tryCallback(callback, null, null); return null
catchNullCb(callback) ==
    LET t == tryCallback(callback, Null, Null) IN
    [calls |-> t.calls,
     promise |-> IF t.threw THEN Rejected(CallbackThrown) ELSE Resolved(Null)]

\* catch block of createCollectionField and getMe:
\* data = err.response!.data; tryCallback(callback, data, null); return Promise.reject(data)
catchRejectCb(err, callback) ==
    LET response == ResponseOf(err) IN
    IF response = Undefined THEN [calls |-> <<>>, promise |-> Rejected(TypeError)]
    ELSE LET t == tryCallback(callback, response.data, Null) IN
         [calls |-> t.calls,
          promise |-> IF t.threw THEN Rejected(CallbackThrown) ELSE Rejected(response.data)]

\* catch block of updateCollectionField and deleteCollectionField
catchNotFoundCb(err, marker, callback) ==
    LET response == ResponseOf(err)
        test == notFoundTest(response, marker)
        t == IF test = "yes" THEN tryCallback(callback, Null, Null)
             ELSE tryCallback(callback, response.data, Null)
    IN IF test = "TypeError" THEN [calls |-> <<>>, promise |-> Rejected(TypeError)]
       ELSE [calls |-> t.calls,
             promise |-> IF t.threw THEN Rejected(CallbackThrown)
                         ELSE IF test = "yes" THEN Resolved(Null)
                         ELSE Rejected(response.data)]

getCollectionFields(collection_id, callback, r) ==
    IF ~Truthy(collection_id) THEN Missing("collection_id")
    ELSE LET req == get("/collections/" \o collection_id.str \o "/fields", Undefined)
             fields == Get(r.res.data, "fields")
             try == tryNotify(callback, fields)
             catch == catchNullCb(callback)
         IN IF ~r.settled THEN Awaiting(req)
            ELSE IF r.ok /\ try.done THEN Effect(<<req>>, try.calls, Resolved(fields))
            ELSE IF r.ok THEN Effect(<<req>>, try.calls \o catch.calls, catch.promise)
            ELSE Effect(<<req>>, catch.calls, catch.promise)

getCollectionField(collection_id, field_id, callback, r) ==
    IF ~Truthy(collection_id) THEN Missing("collection_id")
    ELSE IF ~Truthy(field_id) THEN Missing("field_id")
    ELSE LET req == get("/collections/" \o collection_id.str \o "/fields/" \o field_id.str, Undefined)
             field == Get(r.res.data, "field")
             try == tryNotify(callback, field)
             catch == catchNullCb(callback)
         IN IF ~r.settled THEN Awaiting(req)
            ELSE IF r.ok /\ try.done THEN Effect(<<req>>, try.calls, Resolved(field))
            ELSE IF r.ok THEN Effect(<<req>>, try.calls \o catch.calls, catch.promise)
            ELSE Effect(<<req>>, catch.calls, catch.promise)

\* variant of createCollectionField that also tells the callback of a missing argument
createCollectionField_notifying(collection_id, data, callback, r) ==
    IF ~Truthy(collection_id)
    THEN Effect(<<>>, tryCallback(callback, buildRequiredArgError("collection_id"), Null).calls,
                Rejected(buildRequiredArgError("collection_id")))
    ELSE IF ~Truthy(data) THEN Missing("data")
    ELSE LET req == post("/collections/" \o collection_id.str \o "/fields/", data, Undefined)
             field == Get(r.res.data, "field")
             try == tryNotify(callback, field)
             catch == catchRejectCb(IF r.ok THEN try.err ELSE r.err, callback)
         IN IF ~r.settled THEN Awaiting(req)
            ELSE IF r.ok /\ try.done THEN Effect(<<req>>, try.calls, Resolved(field))
            ELSE IF r.ok THEN Effect(<<req>>, try.calls \o catch.calls, catch.promise)
            ELSE Effect(<<req>>, catch.calls, catch.promise)

createCollectionField(collection_id, data, callback, r) ==
    IF ~Truthy(collection_id) THEN Missing("collection_id")
    ELSE IF ~Truthy(data) THEN Missing("data")
    ELSE LET req == post("/collections/" \o collection_id.str \o "/fields/", data, Undefined)
             field == Get(r.res.data, "field")
             try == tryNotify(callback, field)
             catch == catchRejectCb(IF r.ok THEN try.err ELSE r.err, callback)
         IN IF ~r.settled THEN Awaiting(req)
            ELSE IF r.ok /\ try.done THEN Effect(<<req>>, try.calls, Resolved(field))
            ELSE IF r.ok THEN Effect(<<req>>, try.calls \o catch.calls, catch.promise)
            ELSE Effect(<<req>>, catch.calls, catch.promise)

updateCollectionField(collection_id, field_id, fields, callback, r) ==
    IF ~Truthy(collection_id) THEN Missing("collection_id")
    ELSE IF ~Truthy(field_id) THEN Missing("field_id")
    ELSE IF ~Truthy(fields) THEN Missing("fields")
    ELSE LET req == patch("/collections/" \o collection_id.str \o "/fields/" \o field_id.str,
                          fields, Undefined)
             field == Get(r.res.data, "field")
             try == tryNotify(callback, field)
             catch == catchNotFoundCb(IF r.ok THEN try.err ELSE r.err, "Invalid _id", callback)
         IN IF ~r.settled THEN Awaiting(req)
            ELSE IF r.ok /\ try.done THEN Effect(<<req>>, try.calls, Resolved(field))
            ELSE IF r.ok THEN Effect(<<req>>, try.calls \o catch.calls, catch.promise)
            ELSE Effect(<<req>>, catch.calls, catch.promise)

deleteCollectionField(collection_id, field_id, callback, r) ==
    IF ~Truthy(collection_id) THEN Missing("collection_id")
    ELSE IF ~Truthy(field_id) THEN Missing("field_id")
    ELSE LET req == delete("/collections/" \o collection_id.str \o "/fields/" \o field_id.str,
                           Undefined)
             data == Rest(r.res.data, "status")
             try == tryNotify(callback, data)
             catch == catchNotFoundCb(IF r.ok THEN try.err ELSE r.err, "Invalid _id", callback)
         IN IF ~r.settled THEN Awaiting(req)
            ELSE IF r.ok /\ try.done THEN Effect(<<req>>, try.calls, Resolved(data))
            ELSE IF r.ok THEN Effect(<<req>>, try.calls \o catch.calls, catch.promise)
            ELSE Effect(<<req>>, catch.calls, catch.promise)

getMe(callback, r) ==
    LET req == get("/users/me", Undefined)
        user == Get(r.res.data, "user")
        try == tryNotify(callback, user)
        catch == catchRejectCb(IF r.ok THEN try.err ELSE r.err, callback)
    IN IF ~r.settled THEN Awaiting(req)
       ELSE IF r.ok /\ try.done THEN Effect(<<req>>, try.calls, Resolved(user))
       ELSE IF r.ok THEN Effect(<<req>>, try.calls \o catch.calls, catch.promise)
       ELSE Effect(<<req>>, catch.calls, catch.promise)

----------------------------------------------------------------------------
(* The arguments callers pass and the ways the transport settles *)

TokenArgs == {Undefined, Str(""), Str("abc"), Str("xyz")}
VersionArgs == {Undefined, Str("2.0.0")}
IdArgs == {Undefined, Str(""), Str("X")}
NameArgs == {Undefined, Str(""), Str("Foo")}
EmailArgs == {Undefined, Str(""), Str("second@user.com")}
RoleArgs == {Undefined, Str("viewer")}
DataArgs == {Undefined, Null, EmptyObject, Obj("name" :> Str("Teams"))}
CollectionDataArgs == DataArgs \cup {Obj("name" :> Str("Teams") @@ "database" :> Str("D9"))}
Callbacks == {Undefined, Fn(FALSE), Fn(TRUE)}

FieldNames == {"name", "slug"}
FieldLists == UNION {[1..n -> FieldNames] : n \in 0..MaxFields}
QueryProps(keys, fields) ==
    [k \in keys \cup (IF fields = Undefined THEN {} ELSE {"fields"}) |->
        CASE k = "page" -> Num(2)
          [] k = "limit" -> Num(5)
          [] k = "sort" -> Str("name")
          [] OTHER -> fields]
QueryArgs ==
    {Undefined} \cup
    {Obj(QueryProps(keys, fields)) :
        keys \in SUBSET {"page", "limit", "sort"},
        fields \in {Undefined} \cup {Arr(a) : a \in FieldLists}}

Entity(id) == Obj("_id" :> Str(id) @@ "name" :> Str("Foo"))
Paging == "results" :> Num(1) @@ "page" :> Num(1) @@ "limit" :> Num(100)
Success == "status" :> Str("success")
Envelopes ==
    {Obj(Success @@ "database" :> Entity("X")),
     Obj(Success @@ Paging @@ "databases" :> Arr(<<Entity("X")>>)),
     Obj(Success @@ "collection" :> Entity("C")),
     Obj(Success @@ Paging @@ "database" :> Str("X") @@ "collections" :> Arr(<<Entity("C")>>)),
     Obj(Success @@ "item" :> Entity("I")),
     Obj(Success @@ Paging @@ "items" :> Arr(<<Entity("I")>>)),
     Obj(Success @@ "field" :> Entity("F")),
     Obj(Success @@ "fields" :> Arr(<<Entity("F")>>)),
     Obj(Success @@ "user" :> Entity("U")),
     Obj(Success @@ "message" :> Str("Database shared")),
     Obj(Success @@ "databasesDeleted" :> Num(1) @@ "collectionsDeleted" :> Num(2)
                 @@ "itemsDeleted" :> Num(3)),
     Obj(Success @@ "fieldDeleted" :> Bool(TRUE))}

ErrorStatuses == {404, 500}
ErrorBodies ==
    {Obj("message" :> Str("Invalid database id: X")),
     Obj("message" :> Str("Invalid _id: X")),
     Obj("message" :> Str("Cast failed: Invalid _id, Invalid database")),
     Obj("message" :> Str("Invalid") @@ "data" :> Obj("field" :> Str("name"))),
     Obj("data" :> Obj("field" :> Str("name")))}
\* a failure response, or no response at all (network failure)
ErrorResponses == {Undefined} \cup {[status |-> s, data |-> b] : s \in ErrorStatuses, b \in ErrorBodies}

----------------------------------------------------------------------------
(* Actions *)

NoCall == [op |-> "none", args |-> <<>>, callback |-> Undefined]
NoCtor == [state |-> "none"]

\* a call slot: the call, where it stands, and what it has done so far
Slot(c, p, reqs, r, cbs, pr) ==
    [call |-> c, pc |-> p, requests |-> reqs, axiosResult |-> r, cbLog |-> cbs, promise |-> pr]

\* the slot of a call that has not been made
NoOther == Slot(NoCall, "idle", <<>>, NotYet, <<>>, Pending)

Init ==
    /\ client = NoClient
    /\ env = [CMSTOKEN |-> Undefined]
    /\ ctorResult = NoCtor
    /\ call = NoCall
    /\ pc = "idle"
    /\ requests = <<>>
    /\ axiosResult = NotYet
    /\ cbLog = <<>>
    /\ promise = Pending
    /\ other = NoOther

\* init(initilizer): constructs the client; the token is also written to process.env
init ==
    /\ pc = "idle"
    /\ other.pc = "idle"
    /\ \E token \in TokenArgs, version \in VersionArgs :
        LET made == MyCMS(token, version) IN
        IF made.threw
        THEN /\ ctorResult' = [state |-> "threw", error |-> made.error,
                               token |-> token, version |-> version]
             /\ UNCHANGED <<client, env>>
        ELSE /\ ctorResult' = [state |-> "ok", token |-> token, version |-> version]
             /\ client' = made.this
             /\ env' = [CMSTOKEN |-> made.envToken]
    /\ UNCHANGED <<call, pc, requests, axiosResult, cbLog, promise, other>>

\* a method is invoked on the client and runs up to its first await or its return
Invoke(op, args, callback, e) ==
    /\ pc = "idle"
    /\ client # NoClient
    /\ call' = [op |-> op, args |-> args, callback |-> callback]
    /\ requests' = e.requests
    /\ cbLog' = e.callbacks
    /\ promise' = e.promise
    /\ pc' = IF e.promise = Pending THEN "awaiting" ELSE "settled"
    /\ axiosResult' = NotYet
    /\ UNCHANGED <<client, env, ctorResult, other>>

GetDatabases ==
    \E query \in QueryArgs :
        Invoke("getDatabases", <<query>>, Undefined, getDatabases(query, NotYet))
GetDatabaseById ==
    \E database_id \in IdArgs :
        Invoke("getDatabaseById", <<database_id>>, Undefined, getDatabaseById(database_id, NotYet))
CreateDatabase ==
    \E name \in NameArgs :
        Invoke("createDatabase", <<name>>, Undefined, createDatabase(name, NotYet))
DeleteDatabaseById ==
    \E database_id \in IdArgs :
        Invoke("deleteDatabaseById", <<database_id>>, Undefined,
               deleteDatabaseById(database_id, NotYet))
ShareDatabase ==
    \E database_id \in IdArgs, email \in EmailArgs, role \in RoleArgs :
        Invoke("shareDatabase", <<database_id, email, role>>, Undefined,
               shareDatabase(database_id, email, role, NotYet))
UpdateDatabaseById ==
    \E database_id \in IdArgs, name \in NameArgs :
        Invoke("updateDatabaseById", <<database_id, name>>, Undefined,
               updateDatabaseById(database_id, name, NotYet))
GetCollectionsByDatabaseId ==
    \E database_id \in IdArgs :
        Invoke("getCollectionsByDatabaseId", <<database_id>>, Undefined,
               getCollectionsByDatabaseId(database_id, NotYet))
GetCollectionById ==
    \E collection_id \in IdArgs :
        Invoke("getCollectionById", <<collection_id>>, Undefined,
               getCollectionById(collection_id, NotYet))
CreateCollectionByDatabaseId ==
    \E database_id \in IdArgs, data \in CollectionDataArgs :
        Invoke("createCollectionByDatabaseId", <<database_id, data>>, Undefined,
               createCollectionByDatabaseId(database_id, data, NotYet))
UpdateCollectionById ==
    \E collection_id \in IdArgs, update \in DataArgs :
        Invoke("updateCollectionById", <<collection_id, update>>, Undefined,
               updateCollectionById(collection_id, update, NotYet))
DeleteCollectionById ==
    \E collection_id \in IdArgs :
        Invoke("deleteCollectionById", <<collection_id>>, Undefined,
               deleteCollectionById(collection_id, NotYet))
GetItemsByCollectionId ==
    \E collection_id \in IdArgs, query \in QueryArgs :
        Invoke("getItemsByCollectionId", <<collection_id, query>>, Undefined,
               getItemsByCollectionId(collection_id, query, NotYet))
GetItem ==
    \E collection_id \in IdArgs, item_id \in IdArgs :
        Invoke("getItem", <<collection_id, item_id>>, Undefined,
               getItem(collection_id, item_id, NotYet))
CreateItem ==
    \E collection_id \in IdArgs, data \in DataArgs :
        Invoke("createItem", <<collection_id, data>>, Undefined,
               createItem(collection_id, data, NotYet))
PatchItemById ==
    \E collection_id \in IdArgs, item_id \in IdArgs, fields \in DataArgs :
        Invoke("patchItemById", <<collection_id, item_id, fields>>, Undefined,
               patchItemById(collection_id, item_id, fields, NotYet))
PutItemById ==
    \E collection_id \in IdArgs, item_id \in IdArgs, fields \in DataArgs :
        Invoke("putItemById", <<collection_id, item_id, fields>>, Undefined,
               putItemById(collection_id, item_id, fields, NotYet))
DeleteItemById ==
    \E collection_id \in IdArgs, item_id \in IdArgs :
        Invoke("deleteItemById", <<collection_id, item_id>>, Undefined,
               deleteItemById(collection_id, item_id, NotYet))
GetCollectionFields ==
    \E collection_id \in IdArgs, callback \in Callbacks :
        Invoke("getCollectionFields", <<collection_id>>, callback,
               getCollectionFields(collection_id, callback, NotYet))
GetCollectionField ==
    \E collection_id \in IdArgs, field_id \in IdArgs, callback \in Callbacks :
        Invoke("getCollectionField", <<collection_id, field_id>>, callback,
               getCollectionField(collection_id, field_id, callback, NotYet))
CreateCollectionField ==
    \E collection_id \in IdArgs, data \in DataArgs, callback \in Callbacks :
        Invoke("createCollectionField", <<collection_id, data>>, callback,
               createCollectionField(collection_id, data, callback, NotYet))
UpdateCollectionField ==
    \E collection_id \in IdArgs, field_id \in IdArgs, fields \in DataArgs, callback \in Callbacks :
        Invoke("updateCollectionField", <<collection_id, field_id, fields>>, callback,
               updateCollectionField(collection_id, field_id, fields, callback, NotYet))
DeleteCollectionField ==
    \E collection_id \in IdArgs, field_id \in IdArgs, callback \in Callbacks :
        Invoke("deleteCollectionField", <<collection_id, field_id>>, callback,
               deleteCollectionField(collection_id, field_id, callback, NotYet))
GetMe ==
    \E callback \in Callbacks :
        Invoke("getMe", <<>>, callback, getMe(callback, NotYet))

\* axios(config) resolves with a 2xx response
AxiosResolve ==
    /\ pc = "awaiting"
    /\ \E data \in Envelopes : axiosResult' = Fulfilled(200, data)
    /\ pc' = "ready"
    /\ UNCHANGED <<client, env, ctorResult, call, requests, cbLog, promise, other>>

\* axios(config) rejects: a non-2xx response, or no response at all
AxiosReject ==
    /\ pc = "awaiting"
    /\ \E response \in ErrorResponses : axiosResult' = Failed(AxiosError(response))
    /\ pc' = "ready"
    /\ UNCHANGED <<client, env, ctorResult, call, requests, cbLog, promise, other>>

\* the suspended method of call c, continued with the transport's settlement r
Run(c, r) ==
    LET a == c.args
        cb == c.callback
    IN CASE c.op = "getDatabases" -> getDatabases(a[1], r)
         [] c.op = "getDatabaseById" -> getDatabaseById(a[1], r)
         [] c.op = "createDatabase" -> createDatabase(a[1], r)
         [] c.op = "deleteDatabaseById" -> deleteDatabaseById(a[1], r)
         [] c.op = "shareDatabase" -> shareDatabase(a[1], a[2], a[3], r)
         [] c.op = "updateDatabaseById" -> updateDatabaseById(a[1], a[2], r)
         [] c.op = "getCollectionsByDatabaseId" -> getCollectionsByDatabaseId(a[1], r)
         [] c.op = "getCollectionById" -> getCollectionById(a[1], r)
         [] c.op = "createCollectionByDatabaseId" -> createCollectionByDatabaseId(a[1], a[2], r)
         [] c.op = "updateCollectionById" -> updateCollectionById(a[1], a[2], r)
         [] c.op = "deleteCollectionById" -> deleteCollectionById(a[1], r)
         [] c.op = "getItemsByCollectionId" -> getItemsByCollectionId(a[1], a[2], r)
         [] c.op = "getItem" -> getItem(a[1], a[2], r)
         [] c.op = "createItem" -> createItem(a[1], a[2], r)
         [] c.op = "patchItemById" -> patchItemById(a[1], a[2], a[3], r)
         [] c.op = "putItemById" -> putItemById(a[1], a[2], a[3], r)
         [] c.op = "deleteItemById" -> deleteItemById(a[1], a[2], r)
         [] c.op = "getCollectionFields" -> getCollectionFields(a[1], cb, r)
         [] c.op = "getCollectionField" -> getCollectionField(a[1], a[2], cb, r)
         [] c.op = "createCollectionField" -> createCollectionField(a[1], a[2], cb, r)
         [] c.op = "updateCollectionField" -> updateCollectionField(a[1], a[2], a[3], cb, r)
         [] c.op = "deleteCollectionField" -> deleteCollectionField(a[1], a[2], cb, r)
         [] c.op = "getMe" -> getMe(cb, r)

\* variant of Resume that continues with whichever response arrived last
Resume_crossed ==
    /\ pc = "ready"
    /\ LET r == IF other.axiosResult.settled THEN other.axiosResult ELSE axiosResult
           e == Run(call, r)
       IN /\ requests' = e.requests
          /\ cbLog' = e.callbacks
          /\ promise' = e.promise
    /\ pc' = "settled"
    /\ UNCHANGED <<client, env, ctorResult, call, axiosResult, other>>

\* the continuation after the await: the rest of the method runs and the promise settles
Resume ==
    /\ pc = "ready"
    /\ LET e == Run(call, axiosResult) IN
        /\ requests' = e.requests
        /\ cbLog' = e.callbacks
        /\ promise' = e.promise
    /\ pc' = "settled"
    /\ UNCHANGED <<client, env, ctorResult, call, axiosResult, other>>

\* the caller's .then/.catch handler consumes the settled promise
Then ==
    /\ pc = "settled"
    /\ call' = NoCall
    /\ pc' = "idle"
    /\ requests' = <<>>
    /\ axiosResult' = NotYet
    /\ cbLog' = <<>>
    /\ promise' = Pending
    /\ UNCHANGED <<client, env, ctorResult, other>>

Next ==
    \/ init
    \/ GetDatabases
    \/ GetDatabaseById
    \/ CreateDatabase
    \/ DeleteDatabaseById
    \/ ShareDatabase
    \/ UpdateDatabaseById
    \/ GetCollectionsByDatabaseId
    \/ GetCollectionById
    \/ CreateCollectionByDatabaseId
    \/ UpdateCollectionById
    \/ DeleteCollectionById
    \/ GetItemsByCollectionId
    \/ GetItem
    \/ CreateItem
    \/ PatchItemById
    \/ PutItemById
    \/ DeleteItemById
    \/ GetCollectionFields
    \/ GetCollectionField
    \/ CreateCollectionField
    \/ UpdateCollectionField
    \/ DeleteCollectionField
    \/ GetMe
    \/ AxiosResolve
    \/ AxiosReject
    \/ Resume
    \/ Then

Spec == Init /\ [][Next]_vars

\* the event loop runs the continuation of a method whose awaited promise has settled
SpecLive == Spec /\ WF_vars(Resume)

----------------------------------------------------------------------------
(* Two calls in flight on one client.  The second call goes through the    *)
(* same steps as the first, in any interleaving with them: nothing orders  *)
(* the two methods or the settlements of their transport promises.         *)

\* a second method is invoked while the first call may still be in flight
OtherInvoke(op, args, callback, e) ==
    /\ other.pc = "idle"
    /\ client # NoClient
    /\ other' = Slot([op |-> op, args |-> args, callback |-> callback],
                     IF e.promise = Pending THEN "awaiting" ELSE "settled",
                     e.requests, NotYet, e.callbacks, e.promise)
    /\ UNCHANGED <<client, env, ctorResult, call, pc, requests, axiosResult, cbLog, promise>>

OtherGetDatabaseById ==
    \E database_id \in IdArgs :
        OtherInvoke("getDatabaseById", <<database_id>>, Undefined,
                    getDatabaseById(database_id, NotYet))
OtherUpdateDatabaseById ==
    \E database_id \in IdArgs, name \in NameArgs :
        OtherInvoke("updateDatabaseById", <<database_id, name>>, Undefined,
                    updateDatabaseById(database_id, name, NotYet))
OtherGetMe ==
    \E callback \in Callbacks :
        OtherInvoke("getMe", <<>>, callback, getMe(callback, NotYet))

\* the transport promise of the second call resolves
OtherAxiosResolve ==
    /\ other.pc = "awaiting"
    /\ \E data \in Envelopes :
        other' = [other EXCEPT !.axiosResult = Fulfilled(200, data), !.pc = "ready"]
    /\ UNCHANGED <<client, env, ctorResult, call, pc, requests, axiosResult, cbLog, promise>>

\* the transport promise of the second call rejects
OtherAxiosReject ==
    /\ other.pc = "awaiting"
    /\ \E response \in ErrorResponses :
        other' = [other EXCEPT !.axiosResult = Failed(AxiosError(response)), !.pc = "ready"]
    /\ UNCHANGED <<client, env, ctorResult, call, pc, requests, axiosResult, cbLog, promise>>

\* the continuation of the second call
OtherResume ==
    /\ other.pc = "ready"
    /\ LET e == Run(other.call, other.axiosResult) IN
        other' = [other EXCEPT !.requests = e.requests, !.cbLog = e.callbacks,
                               !.promise = e.promise, !.pc = "settled"]
    /\ UNCHANGED <<client, env, ctorResult, call, pc, requests, axiosResult, cbLog, promise>>

\* the caller consumes the settled promise of the second call
OtherThen ==
    /\ other.pc = "settled"
    /\ other' = NoOther
    /\ UNCHANGED <<client, env, ctorResult, call, pc, requests, axiosResult, cbLog, promise>>

NextConcurrent ==
    \/ init
    \/ GetDatabaseById
    \/ UpdateDatabaseById
    \/ GetMe
    \/ AxiosResolve
    \/ AxiosReject
    \/ Resume
    \/ Then
    \/ OtherGetDatabaseById
    \/ OtherUpdateDatabaseById
    \/ OtherGetMe
    \/ OtherAxiosResolve
    \/ OtherAxiosReject
    \/ OtherResume
    \/ OtherThen

SpecConcurrent == Init /\ [][NextConcurrent]_vars

----------------------------------------------------------------------------
(* The private HTTP helpers on their own: each is applied to a path, a     *)
(* body where it takes one, and a query, and builds its request.           *)

HelperPaths == {"/databases", "/collections/X"}
HelperBodies == {EmptyObject, Obj("name" :> Str("Teams"))}
HelperQueries == {Undefined, Obj("page" :> Num(2)), Obj("fields" :> Str("name,slug"))}

\* a helper has been called with (path, data, query) and has built request req
Helper(name, path, data, query, req) ==
    /\ pc = "idle"
    /\ client # NoClient
    /\ call' = [op |-> name, args |-> <<Str(path), data, query>>, callback |-> Undefined]
    /\ requests' = <<req>>
    /\ UNCHANGED <<client, env, ctorResult, pc, axiosResult, cbLog, promise, other>>

CallGet ==
    \E path \in HelperPaths, query \in HelperQueries :
        Helper("get", path, Undefined, query, get(path, query))
CallPost ==
    \E path \in HelperPaths, data \in HelperBodies, query \in HelperQueries :
        Helper("post", path, data, query, post(path, data, query))
CallPut ==
    \E path \in HelperPaths, data \in HelperBodies, query \in HelperQueries :
        Helper("put", path, data, query, put(path, data, query))
CallPatch ==
    \E path \in HelperPaths, data \in HelperBodies, query \in HelperQueries :
        Helper("patch", path, data, query, patch(path, data, query))
CallDelete ==
    \E path \in HelperPaths, query \in HelperQueries :
        Helper("delete", path, Undefined, query, delete(path, query))

NextHelpers ==
    \/ init
    \/ CallGet
    \/ CallPost
    \/ CallPut
    \/ CallPatch
    \/ CallDelete

SpecHelpers == Init /\ [][NextHelpers]_vars

----------------------------------------------------------------------------
(* Vocabulary of the properties *)

LookupOps == {"getDatabaseById", "getCollectionById", "getItem", "getCollectionField"}
DatabaseMutationOps == {"updateDatabaseById", "deleteDatabaseById"}
MutationOps ==
    DatabaseMutationOps \cup
    {"updateCollectionById", "deleteCollectionById", "patchItemById", "putItemById",
     "deleteItemById", "updateCollectionField", "deleteCollectionField"}
CreateOps == {"createDatabase", "createCollectionByDatabaseId", "createItem", "createCollectionField"}
DeleteOps == {"deleteDatabaseById", "deleteCollectionById", "deleteItemById", "deleteCollectionField"}
QueryListOps == {"getDatabases", "getItemsByCollectionId"}
PlainListOps == {"getDatabases", "getCollectionsByDatabaseId", "getItemsByCollectionId"}
ListOps == PlainListOps \cup {"getCollectionFields"}

\* the marker prefix the specification assigns to the resource kind of a mutation
MarkerOf(op) == IF op \in DatabaseMutationOps THEN "Invalid database" ELSE "Invalid _id"

\* the payload key the specification assigns to a read/create/update operation
PayloadKeyOf(op) ==
    CASE op \in {"getDatabaseById", "createDatabase", "updateDatabaseById"} -> "database"
      [] op = "getDatabases" -> "databases"
      [] op \in {"getCollectionById", "createCollectionByDatabaseId", "updateCollectionById"} -> "collection"
      [] op = "getCollectionsByDatabaseId" -> "collections"
      [] op \in {"getItem", "createItem", "patchItemById", "putItemById"} -> "item"
      [] op = "getItemsByCollectionId" -> "items"
      [] op \in {"getCollectionField", "createCollectionField", "updateCollectionField"} -> "field"
      [] op = "getCollectionFields" -> "fields"
      [] op = "getMe" -> "user"
      [] OTHER -> "none"
UnwrapOps == {op \in LookupOps \cup CreateOps \cup MutationOps \cup ListOps \cup {"getMe"} :
                 op \notin DeleteOps}

\* the required parameters of every operation, in parameter order
RequiredParams(op) ==
    CASE op \in {"getDatabaseById", "deleteDatabaseById", "getCollectionsByDatabaseId"} -> <<"database_id">>
      [] op = "createDatabase" -> <<"name">>
      [] op = "shareDatabase" -> <<"database_id", "email", "role">>
      [] op = "updateDatabaseById" -> <<"database_id", "name">>
      [] op \in {"getCollectionById", "deleteCollectionById", "getItemsByCollectionId",
                 "getCollectionFields"} -> <<"collection_id">>
      [] op = "createCollectionByDatabaseId" -> <<"database_id", "data">>
      [] op = "updateCollectionById" -> <<"collection_id", "update">>
      [] op \in {"getItem", "deleteItemById"} -> <<"collection_id", "item_id">>
      [] op \in {"createItem", "createCollectionField"} -> <<"collection_id", "data">>
      [] op \in {"patchItemById", "putItemById"} -> <<"collection_id", "item_id", "fields">>
      [] op \in {"getCollectionField", "deleteCollectionField"} -> <<"collection_id", "field_id">>
      [] op = "updateCollectionField" -> <<"collection_id", "field_id", "fields">>
      [] OTHER -> <<>>

Called == call.op # "none"
Settled == pc = "settled"
TransportSucceeded == axiosResult.settled /\ axiosResult.ok
TransportFailed == axiosResult.settled /\ ~axiosResult.ok
\* the transport failed with an HTTP response (status and decoded body)
FailureResponse == TransportFailed /\ axiosResult.err.response # Undefined
\* the transport failed without any HTTP response
NoResponse == TransportFailed /\ axiosResult.err.response = Undefined
ErrorStatus == axiosResult.err.response.status
ErrorBody == axiosResult.err.response.data
Envelope == axiosResult.res.data

\* p is a prefix of s, stated by concatenation
IsPrefix(p, s) == \E n \in 0..Len(s) : s = p \o SubSeq(s, n + 1, Len(s))
\* the message of the error body starts with the marker
MarkerPrefixed(marker) ==
    /\ Get(ErrorBody, "message").type = "string"
    /\ IsPrefix(marker, Get(ErrorBody, "message").str)

----------------------------------------------------------------------------
(* Properties *)

\* C1: lookup policy.  Whenever the transport of a get-by-id operation called
\* with its ids present reports a failure (any status, any body, or no
\* response), the call resolves to null and never rejects.
C1_LookupFailureResolvesNull ==
    (Settled /\ call.op \in LookupOps /\ TransportFailed) => promise = Resolved(Null)

\* C2: mutation policy.  A failure of an update/delete operation with status
\* 404, or with a message that starts with the resource's marker, resolves to
\* null; every other failure rejects with the server's raw error body.
C2_MutationPolicy ==
    (Settled /\ call.op \in MutationOps /\ FailureResponse) =>
        IF ErrorStatus = 404 \/ MarkerPrefixed(MarkerOf(call.op))
        THEN promise = Resolved(Null)
        ELSE promise = Rejected(ErrorBody)

\* an argument that is empty or absent, an empty object included
EmptyOrAbsent(v) == v \in {Undefined, Null, Str(""), EmptyObject}
\* an argument that is absent (undefined or null) or the empty string
MissingValue(v) == v \in {Undefined, Null, Str("")}
RequiredIndexes == 1..Len(RequiredParams(call.op))
FirstMissing ==
    CHOOSE i \in RequiredIndexes :
        /\ MissingValue(call.args[i])
        /\ \A j \in 1..(i - 1) : ~MissingValue(call.args[j])

\* C3 as claimed: every required argument that is empty or absent makes the
\* call reject with the MissingArgument error naming that parameter, with no
\* transport call.
C3_EmptyOrAbsentRejected ==
    \A i \in RequiredIndexes :
        (Called /\ EmptyOrAbsent(call.args[i])) =>
            /\ promise = Rejected(buildRequiredArgError(RequiredParams(call.op)[i]))
            /\ requests = <<>>

\* C3 as amended: a call with a required argument that is absent (undefined or
\* null) or an empty string rejects with the MissingArgument error naming the
\* first such argument in parameter order, and hands no request to the
\* transport at any time.
C3_MissingArgumentFirst ==
    (Called /\ \E i \in RequiredIndexes : MissingValue(call.args[i])) =>
        /\ promise = Rejected(buildRequiredArgError(RequiredParams(call.op)[FirstMissing]))
        /\ requests = <<>>
        /\ pc = "settled"

\* a call of patchItemById whose item_id and fields are both missing
C3_Witness ==
    /\ call.op = "patchItemById"
    /\ call.args = <<Str("X"), Undefined, Undefined>>
    /\ promise = Rejected(buildRequiredArgError("item_id"))
    /\ requests = <<>>

\* C4: shareDatabase never raises.  Once the transport has settled, a
\* successful share resolves to {shared: true, message} with the envelope's
\* message and a failing share resolves to {shared: false, message} with the
\* message of the error body; the call never ends in a rejection.
C4_ShareNeverRejects ==
    (Settled /\ call.op = "shareDatabase" /\ axiosResult.settled) =>
        IF axiosResult.ok
        THEN promise = Resolved(Obj("shared" :> Bool(TRUE) @@ "message" :> Get(Envelope, "message")))
        ELSE /\ promise.state = "fulfilled"
             /\ Get(promise.value, "shared") = Bool(FALSE)
             /\ FailureResponse => Get(promise.value, "message") = Get(ErrorBody, "message")

\* C5: create policy.  Every transport failure of a create operation rejects,
\* with the server's raw error body when there is one; a create never
\* resolves to null.
C5_CreateFailureRejectsRawBody ==
    (Settled /\ call.op \in CreateOps /\ TransportFailed) =>
        /\ promise.state = "rejected"
        /\ FailureResponse => promise.reason = ErrorBody

\* C6: envelope unwrapping.  On transport success every read/create/update
\* operation resolves to exactly the value under its payload key, never to
\* the envelope.
C6_UnwrapsPayloadKey ==
    (Settled /\ call.op \in UnwrapOps /\ TransportSucceeded) =>
        /\ promise = Resolved(Get(Envelope, PayloadKeyOf(call.op)))
        /\ promise.value # Envelope

\* C7: on transport success a delete operation resolves to the envelope with
\* only the status key removed: same other keys, same values, no key added.
C7_DeleteStripsOnlyStatus ==
    (Settled /\ call.op \in DeleteOps /\ TransportSucceeded) =>
        /\ promise.state = "fulfilled"
        /\ promise.value.type = "object"
        /\ DOMAIN promise.value.props = (DOMAIN Envelope.props) \ {"status"}
        /\ \A k \in DOMAIN promise.value.props : promise.value.props[k] = Envelope.props[k]

\* the query features the caller passed to a list operation that takes a query
QueryOfCall ==
    Default(call.args[IF call.op = "getDatabases" THEN 1 ELSE 2], EmptyObject)

\* position in the joined string at which element i of array a starts
RECURSIVE StartOf(_, _)
StartOf(a, i) == IF i = 1 THEN 1 ELSE StartOf(a, i - 1) + Len(a[i - 1]) + 1

\* s is the elements of a in the given order, separated by single commas
IsCommaJoin(s, a) ==
    LET n == Len(a) IN
    /\ Len(s) = IF n = 0 THEN 0 ELSE StartOf(a, n) + Len(a[n]) - 1
    /\ \A i \in 1..n : SubSeq(s, StartOf(a, i), StartOf(a, i) + Len(a[i]) - 1) = a[i]
    /\ \A i \in 1..(n - 1) :
          SubSeq(s, StartOf(a, i) + Len(a[i]), StartOf(a, i) + Len(a[i])) = ","

\* C8: query encoder.  In the query handed to the transport page, limit and
\* sort are those of the caller's features; a fields array is replaced by
\* its elements joined with commas in the given order, duplicates kept;
\* without fields there is no fields key; and no other key appears.
\* encode({fields:["name","slug"], page:2}) = {page:2, fields:"name,slug"},
\* encode({}) = {}.
C8_QueryEncoder ==
    (Called /\ call.op \in QueryListOps /\ requests # <<>>) =>
        LET q == QueryOfCall
            f == requests[1].params
        IN /\ f.type = "object"
           /\ \A k \in {"page", "limit", "sort"} : Get(f, k) = Get(q, k)
           /\ DOMAIN f.props = DOMAIN q.props
           /\ "fields" \in DOMAIN q.props =>
                /\ Get(f, "fields").type = "string"
                /\ IsCommaJoin(Get(f, "fields").str, Get(q, "fields").items)
           /\ q = Obj("fields" :> Arr(<<"name", "slug">>) @@ "page" :> Num(2)) =>
                f = Obj("page" :> Num(2) @@ "fields" :> Str("name,slug"))
           /\ q = EmptyObject => f = EmptyObject

\* getDatabases({fields: ["name", "slug"], page: 2}) has sent its request
C8_Witness ==
    /\ call.op = "getDatabases"
    /\ call.args = <<Obj("fields" :> Arr(<<"name", "slug">>) @@ "page" :> Num(2))>>
    /\ Len(requests) = 1
    /\ requests[1].params = Obj("page" :> Num(2) @@ "fields" :> Str("name,slug"))

\* C9: createCollectionByDatabaseId with both arguments present sends exactly
\* one POST to /collections whose body holds data's keys verbatim and a
\* database key holding database_id; on success it resolves to the
\* collection payload and on failure it rejects with the raw error body.
C9_CreateCollectionRequest ==
    (Called /\ call.op = "createCollectionByDatabaseId"
            /\ ~MissingValue(call.args[1]) /\ ~MissingValue(call.args[2])) =>
        LET body == requests[1].data
            data == call.args[2]
        IN /\ Len(requests) = 1
           /\ requests[1].method = "POST"
           /\ requests[1].url = client.endpoint \o "/collections"
           /\ body.type = "object"
           /\ DOMAIN body.props = DOMAIN data.props \cup {"database"}
           /\ \A k \in DOMAIN data.props \ {"database"} : body.props[k] = data.props[k]
           /\ body.props["database"] = call.args[1]
           /\ (Settled /\ TransportSucceeded) => promise = Resolved(Get(Envelope, "collection"))
           /\ (Settled /\ TransportFailed) =>
                /\ promise.state = "rejected"
                /\ FailureResponse => promise.reason = ErrorBody

\* C10 as claimed: every list operation, getCollectionFields included,
\* rejects with the transport's failure as it is.
C10_ListFailurePropagates ==
    (Settled /\ call.op \in ListOps /\ TransportFailed) => promise = Rejected(axiosResult.err)

\* C10 as amended: getDatabases, getCollectionsByDatabaseId and
\* getItemsByCollectionId reject with the transport's failure as it is and
\* never resolve to null; getCollectionFields never propagates the
\* transport's failure.
C10_PlainListFailurePropagates ==
    (Settled /\ TransportFailed) =>
        /\ call.op \in PlainListOps => promise = Rejected(axiosResult.err)
        /\ call.op = "getCollectionFields" => promise # Rejected(axiosResult.err)

\* getCollectionsByDatabaseId has rejected with the transport's 500 failure
C10_Witness ==
    /\ Settled
    /\ call.op = "getCollectionsByDatabaseId"
    /\ FailureResponse
    /\ ErrorStatus = 500
    /\ promise = Rejected(axiosResult.err)

----------------------------------------------------------------------------
(* Construction and the request configuration *)

\* C11: a construction without a token, or with an empty one, throws
\* MissingArgument("token") and yields no client (the client held before is
\* left as it was); a construction with a token and no version yields a
\* client of that token whose version is "1.0.0".
C11_ConstructionRequiresToken ==
    [][ctorResult' # ctorResult =>
        LET token == ctorResult'.token
            version == ctorResult'.version
        IN /\ token \in {Undefined, Str("")} =>
                /\ ctorResult'.state = "threw"
                /\ ctorResult'.error = buildRequiredArgError("token")
                /\ client' = client
           /\ (token \notin {Undefined, Str("")} /\ version = Undefined) =>
                /\ ctorResult'.state = "ok"
                /\ client'.type = "MyCMS"
                /\ client'.token = token.str
                /\ client'.version = "1.0.0"]_vars

\* an empty token has made the very first construction throw: there is no client
C11_Witness ==
    /\ ctorResult.state = "threw"
    /\ ctorResult.token = Str("")
    /\ ctorResult.error = buildRequiredArgError("token")
    /\ client = NoClient

\* the path of the operation of call c, from its ids
PathOf(c) ==
    LET a == c.args IN
    CASE c.op = "getDatabases" -> "/databases"
      [] c.op = "createDatabase" -> "/databases"
      [] c.op \in {"getDatabaseById", "deleteDatabaseById", "updateDatabaseById"} ->
            "/databases/" \o a[1].str
      [] c.op = "shareDatabase" -> "/databases/" \o a[1].str \o "/share"
      [] c.op = "getCollectionsByDatabaseId" -> "/databases/" \o a[1].str \o "/collections"
      [] c.op = "createCollectionByDatabaseId" -> "/collections"
      [] c.op \in {"getCollectionById", "updateCollectionById", "deleteCollectionById"} ->
            "/collections/" \o a[1].str
      [] c.op \in {"getItemsByCollectionId", "createItem"} ->
            "/collections/" \o a[1].str \o "/items"
      [] c.op \in {"getItem", "patchItemById", "putItemById", "deleteItemById"} ->
            "/collections/" \o a[1].str \o "/items/" \o a[2].str
      [] c.op = "getCollectionFields" -> "/collections/" \o a[1].str \o "/fields"
      [] c.op = "createCollectionField" -> "/collections/" \o a[1].str \o "/fields/"
      [] c.op \in {"getCollectionField", "updateCollectionField", "deleteCollectionField"} ->
            "/collections/" \o a[1].str \o "/fields/" \o a[2].str
      [] c.op = "getMe" -> "/users/me"

\* the four headers of a client constructed with `token` and `version`
HeadersOf(token, version) ==
    [h \in {"Accept", "Authorization", "accept-version", "Content-Type"} |->
        CASE h = "Authorization" -> "Bearer " \o token
          [] h = "accept-version" -> version
          [] OTHER -> "application/json"]

\* request q is the one call c is to send
WellAddressed(q, c) ==
    /\ q.url = "http://localhost:5000/api/v1" \o PathOf(c)
    /\ q.headers = HeadersOf(client.token, client.version)

\* C12: every request handed to the transport, after any sequence of calls, has
\* the base endpoint followed by the operation's path as its url and exactly
\* the four headers Accept, Authorization: Bearer <token>, accept-version:
\* <version> and Content-Type, with the token and version the client was
\* constructed with.
C12_RequestsAddressedAndAuthenticated ==
    /\ \A i \in 1..Len(requests) : WellAddressed(requests[i], call)
    /\ ctorResult.state = "ok" =>
        /\ client.token = ctorResult.token.str
        /\ client.version = Default(ctorResult.version, Str("1.0.0")).str

\* a PATCH of a field is in flight on a client constructed with version 2.0.0
C12_Witness ==
    /\ call.op = "updateCollectionField"
    /\ Len(requests) = 1
    /\ requests[1].url = "http://localhost:5000/api/v1/collections/X/fields/X"
    /\ requests[1].headers["Authorization"] = "Bearer xyz"
    /\ requests[1].headers["accept-version"] = "2.0.0"
    /\ ctorResult = [state |-> "ok", token |-> Str("xyz"), version |-> Str("2.0.0")]

----------------------------------------------------------------------------
(* Callbacks, retries and process-wide state *)

FieldOps ==
    {"getCollectionFields", "getCollectionField", "createCollectionField",
     "updateCollectionField", "deleteCollectionField"}

\* C13: a field-level operation called with a callback, once its transport
\* has settled and the call with it, has invoked the callback exactly once:
\* with (null, result) when the promise resolved to result, with
\* (errorBody, null) when the promise rejected with errorBody.
C13_CallbackOncePerCall ==
    (Settled /\ call.op \in FieldOps /\ call.callback.type = "function" /\ axiosResult.settled) =>
        /\ Len(cbLog) = 1
        /\ IF promise.state = "fulfilled"
           THEN cbLog[1] = [err |-> Null, data |-> promise.value]
           ELSE cbLog[1] = [err |-> promise.reason, data |-> Null]

ShareRefused(p) ==
    /\ p.state = "fulfilled"
    /\ p.value.type = "object"
    /\ Get(p.value, "shared") = Bool(FALSE)

C15_ConstructionLeavesEnvironment ==
    [][env' = env]_vars

\* the operations claimed to hand a transport error on unchanged
PropagatingOps == CreateOps \cup MutationOps \cup {"getMe"}

\* C16: when the transport fails without any HTTP response, a create, mutation
\* or user operation rejects with that very transport error.
C16_NoResponsePropagatedUnchanged ==
    (Settled /\ call.op \in PropagatingOps /\ NoResponse) =>
        promise = Rejected(axiosResult.err)

----------------------------------------------------------------------------
(* Items *)

ItemWriteOps == {"createItem", "patchItemById", "putItemById"}

\* the HTTP method of an item write
ItemMethodOf(op) ==
    CASE op = "createItem" -> "POST"
      [] op = "patchItemById" -> "PATCH"
      [] op = "putItemById" -> "PUT"

\* the caller's field map: the last argument of an item write
FieldMapOf(c) == c.args[Len(c.args)]

\* C17: an item write called with all its arguments present hands the
\* transport one request: POST /collections/{id}/items for createItem, PATCH
\* or PUT /collections/{id}/items/{itemId} for patchItemById and putItemById,
\* whose body is the caller's field map itself; on transport success the call
\* resolves to the item of the envelope.
C17_ItemWritesPassFieldMapThrough ==
    (call.op \in ItemWriteOps /\ \A i \in RequiredIndexes : ~MissingValue(call.args[i])) =>
        /\ Len(requests) = 1
        /\ requests[1].method = ItemMethodOf(call.op)
        /\ requests[1].url = "http://localhost:5000/api/v1/collections/" \o call.args[1].str \o
                (IF call.op = "createItem" THEN "/items" ELSE "/items/" \o call.args[2].str)
        /\ requests[1].data = FieldMapOf(call)
        /\ (Settled /\ TransportSucceeded) => promise = Resolved(Get(Envelope, "item"))

\* putItemById has sent the caller's one-key map and resolved to the item returned
C17_Witness ==
    /\ Settled
    /\ call.op = "putItemById"
    /\ call.args = <<Str("X"), Str("X"), Obj("name" :> Str("Teams"))>>
    /\ requests[1].method = "PUT"
    /\ requests[1].data = Obj("name" :> Str("Teams"))
    /\ promise = Resolved(Entity("I"))

----------------------------------------------------------------------------
(* Concurrent calls *)

\* what the call of slot s does when it runs alone with the same arguments
\* and the same response to its request
Alone(s) == Run(s.call, s.axiosResult)

\* the requests, callback invocations and promise of slot s are those of
\* its call run alone
OwnOutcome(s) ==
    s.call.op # "none" =>
        /\ s.requests = Alone(s).requests
        /\ s.pc = "settled" =>
            /\ s.promise = Alone(s).promise
            /\ s.cbLog = Alone(s).callbacks

----------------------------------------------------------------------------
(* The not-found marker and the encoding of an empty field list *)

\* the message of the error body, when it is a string
ErrorMessage == Get(ErrorBody, "message")

\* C19: a failure of a mutation with a status other than 404 and a message
\* resolves to null exactly when the message starts with the marker of the
\* resource kind ("Invalid database" for database mutations, "Invalid _id"
\* for collection, item and field mutations); with the other kind's marker,
\* or with the marker elsewhere in the message, the call rejects with the
\* raw body.
C19_MarkerIsResourceSpecificPrefix ==
    (/\ Settled
     /\ call.op \in MutationOps
     /\ FailureResponse
     /\ ErrorStatus # 404
     /\ ErrorMessage.type = "string") =>
        LET marker == IF call.op \in {"updateDatabaseById", "deleteDatabaseById"}
                      THEN "Invalid database" ELSE "Invalid _id"
        IN IF IsPrefix(marker, ErrorMessage.str)
           THEN promise = Resolved(Null)
           ELSE promise = Rejected(ErrorBody)

\* C20: a query whose fields is an empty array is handed to the transport
\* without a fields key, as a query without fields is.
C20_EmptyFieldsLeaveNoKey ==
    (Called /\ call.op \in QueryListOps /\ Len(requests) = 1
        /\ Get(QueryOfCall, "fields") = Arr(<<>>)) =>
        /\ "fields" \notin DOMAIN requests[1].params.props
        /\ requests[1].params = Rest(QueryOfCall, "fields")

----------------------------------------------------------------------------
(* Encoded queries, the user operation and the callback channel *)

\* C21: in every request of getDatabases and getItemsByCollectionId no query
\* parameter is an array: fields is one string or is not there, and for the
\* caller's fields ["name", "slug"] it is the string "name,slug".
C21_FieldsNeverSentAsArray ==
    (call.op \in QueryListOps) =>
        \A i \in 1..Len(requests) :
            LET params == requests[i].params IN
            /\ params.type = "object"
            /\ \A k \in DOMAIN params.props : params.props[k].type # "array"
            /\ Get(params, "fields").type \in {"string", "undefined"}
            /\ Get(QueryOfCall, "fields") = Arr(<<"name", "slug">>) =>
                    Get(params, "fields") = Str("name,slug")

\* getItemsByCollectionId("X", {fields: ["name", "slug"]}) has sent its request
C21_Witness ==
    /\ call.op = "getItemsByCollectionId"
    /\ call.args = <<Str("X"), Obj("fields" :> Arr(<<"name", "slug">>))>>
    /\ Len(requests) = 1
    /\ requests[1].params = Obj("fields" :> Str("name,slug"))

\* the call was given a callback function
HasCallback == call.callback.type = "function"

\* C22: once its transport has settled, getMe has sent one GET to /users/me;
\* on success it resolves to the user of the envelope and has told a given
\* callback (null, user); on a failure response of any status, 404
\* included, it rejects with the raw error body and has told the callback
\* (errorBody, null); it does not resolve to null.
C22_GetMePolicy ==
    (Settled /\ call.op = "getMe" /\ axiosResult.settled) =>
        /\ Len(requests) = 1
        /\ requests[1].method = "GET"
        /\ requests[1].url = "http://localhost:5000/api/v1/users/me"
        /\ promise # Resolved(Null)
        /\ TransportSucceeded =>
            /\ promise = Resolved(Get(Envelope, "user"))
            /\ HasCallback => cbLog = <<[err |-> Null, data |-> Get(Envelope, "user")]>>
        /\ FailureResponse =>
            /\ promise = Rejected(ErrorBody)
            /\ HasCallback => cbLog = <<[err |-> ErrorBody, data |-> Null]>>

\* the last invocation of the callback
LastNotification == cbLog[Len(cbLog)]

\* C23: in the step in which a field-level operation with a callback settles
\* after its transport has, the callback has been told and what it was told
\* last is the outcome of the promise: (null, v) for a promise resolved to v,
\* null included, and (b, null) for a promise rejected with b; once the
\* promise has settled the callback is not told anything more.
C23_CallbackAgreesWithPromise ==
    [][(call.op \in FieldOps /\ HasCallback) =>
        /\ (pc = "ready" /\ pc' = "settled") =>
            /\ cbLog' # <<>>
            /\ promise'.state = "fulfilled" =>
                    cbLog'[Len(cbLog')] = [err |-> Null, data |-> promise'.value]
            /\ promise'.state = "rejected" =>
                    cbLog'[Len(cbLog')] = [err |-> promise'.reason, data |-> Null]
        /\ (pc = "settled" /\ pc' = "settled") => cbLog' = cbLog]_vars

\* C24: a request of createCollectionByDatabaseId has the database_id
\* argument under the database key of its body, whatever data holds.
C24_DatabaseIdTakesPrecedence ==
    (call.op = "createCollectionByDatabaseId") =>
        \A i \in 1..Len(requests) : Get(requests[i].data, "database") = call.args[1]

----------------------------------------------------------------------------
(* The request slots of the helpers *)

HelperOps == {"get", "post", "put", "patch", "delete"}

\* C25: the request a helper builds has the query it was given (an empty
\* mapping when it was given none) as its query parameters and not as its
\* body; the body of a request built by post, put or patch is the data given,
\* and the body of a request built by get or delete holds nothing the caller
\* passed.
C25_HelpersRouteQueryToParams ==
    (call.op \in HelperOps /\ Len(requests) = 1) =>
        LET data == call.args[2]
            query == call.args[3]
        IN /\ requests[1].params = Default(query, EmptyObject)
           /\ query # Undefined => requests[1].data # query
           /\ call.op \in {"post", "put", "patch"} => requests[1].data = data
           /\ call.op \in {"get", "delete"} => requests[1].data \notin HelperQueries \ {Undefined}

----------------------------------------------------------------------------
(* Throwing callbacks and error bodies without a message *)

CallbackOps == FieldOps \cup {"getMe"}

\* C26: a call of a field-level operation or of getMe never invokes its
\* callback more than once, a callback that throws included.
C26_CallbackAtMostOnce ==
    (call.op \in CallbackOps) => Len(cbLog) <= 1

\* C27: a failure response of a mutation with status 404 resolves to null
\* whatever its body; one with another status and a body without a message
\* string rejects with that body.
C27_MessagelessBodyRejectedRaw ==
    (Settled /\ call.op \in MutationOps /\ FailureResponse) =>
        /\ ErrorStatus = 404 => promise = Resolved(Null)
        /\ (ErrorStatus # 404 /\ ErrorMessage.type # "string") => promise = Rejected(ErrorBody)

----------------------------------------------------------------------------
(* Argument validation *)

\* the positions of the required arguments of the call that are missing
MissingIndexes == {i \in RequiredIndexes : MissingValue(call.args[i])}

\* C28: a call with two or more required arguments missing rejects with one
\* MissingArgument error, the one naming the missing argument that comes
\* first in the parameter list, and names none of the later ones; for
\* shareDatabase the order is database_id, email, role.
C28_FirstMissingArgumentNamed ==
    (Called /\ Cardinality(MissingIndexes) >= 2) =>
        LET params == RequiredParams(call.op)
            first == CHOOSE i \in MissingIndexes : \A j \in MissingIndexes : i <= j
        IN /\ promise.state = "rejected"
           /\ promise.reason = buildRequiredArgError(params[first])
           /\ \A j \in MissingIndexes \ {first} : promise.reason # buildRequiredArgError(params[j])
           /\ call.op = "shareDatabase" =>
                promise.reason.message =
                    IF 1 \in MissingIndexes
                    THEN "Argument 'database_id' is required but was not present"
                    ELSE "Argument 'email' is required but was not present"

\* shareDatabase("X", undefined, undefined) has rejected naming email
C28_Witness ==
    /\ call.op = "shareDatabase"
    /\ call.args = <<Str("X"), Undefined, Undefined>>
    /\ promise = Rejected(buildRequiredArgError("email"))

\* C30: a field-level operation called with a callback and a missing
\* required argument has rejected with the MissingArgument error and has not
\* invoked the callback, at any point of the call.
C30_ValidationFailureSkipsCallback ==
    (call.op \in FieldOps /\ HasCallback /\ MissingIndexes # {}) =>
        /\ cbLog = <<>>
        /\ promise.state = "rejected"
        /\ promise.reason.type = "CMSError"

\* createCollectionField(undefined, {name: "Teams"}, callback) has rejected
\* and the callback, one that would return normally, has not been invoked
C30_Witness ==
    /\ Settled
    /\ call.op = "createCollectionField"
    /\ call.args = <<Undefined, Obj("name" :> Str("Teams"))>>
    /\ call.callback = Fn(FALSE)
    /\ promise = Rejected(buildRequiredArgError("collection_id"))
    /\ cbLog = <<>>

----------------------------------------------------------------------------
(* Settlement *)

\* every required argument of the call is present
ArgumentsPresent == MissingIndexes = {}

\* C29: the promise of a call is pending until the call settles and then
\* holds one outcome, a value (null included) or a rejection, that does not
\* change afterwards; a call with every required argument present does not
\* settle before its transport request has completed; and once the
\* transport has completed the request, the call eventually settles.
C29_SettlesOnceAfterTransport ==
    /\ [](pc \in {"awaiting", "ready"} => promise = Pending)
    /\ [](Settled => promise.state \in {"fulfilled", "rejected"})
    /\ []((Settled /\ ArgumentsPresent) => (axiosResult.settled /\ Len(requests) = 1))
    /\ [][(pc = "settled" /\ pc' = "settled") => promise' = promise]_vars
    /\ (pc = "ready") ~> (Settled /\ promise.state \in {"fulfilled", "rejected"})

\* updateCollectionById has resolved to the collection once its request completed
C29_Witness ==
    /\ Settled
    /\ call.op = "updateCollectionById"
    /\ TransportSucceeded
    /\ promise = Resolved(Entity("C"))

====
